---- MODULE Spec2Model ----
(***************************************************************************)
(* Persistence layer of the Casino TAO validator                           *)
(* (casinotao/validator/database.py): four SQLite tables, each operation   *)
(* opening its own connection, running one statement and committing.       *)
(*                                                                         *)
(* snapshots and miner_data are the sets of their committed rows (their   *)
(* integer primary key is a field of the row); bet_events and              *)
(* wallet_mappings are the sequences of their committed rows in rowid      *)
(* order (no statement reads their id).  Python strings that the code      *)
(* transforms (str.lower, str(int), json text) are sequences of one        *)
(* character strings; strings the code only stores are TLA+ strings.       *)
(* Python floats are modelled by integers.  DATETIME columns filled by     *)
(* CURRENT_TIMESTAMP hold the clock reading `now` (Unix seconds, UTC).     *)
(* utc_offset is the time zone the validator's machine is set to.          *)
(* An optional value is {} for None and {v} for the value v.               *)
(* connections is the number of sqlite3 connections that are open; a call  *)
(* is taken to succeed in opening its connection.  inflight holds the      *)
(* calls that threads of the validator have begun and not yet finished     *)
(* (the operations are otherwise run one at a time, each as one step).     *)
(***************************************************************************)
EXTENDS Integers, Sequences, FiniteSets, TLC

VARIABLES snapshots, miner_data, bet_events, wallet_mappings,
          now, utc_offset, last, connections, inflight

vars == <<snapshots, miner_data, bet_events, wallet_mappings,
          now, utc_offset, last, connections, inflight>>

----------------------------------------------------------------------------
(* Bounds of the model *)

MaxUid == 2
MaxBlock == 2
MaxSnapshots == 2
MaxLimit == 2
MaxTicks == 1
MaxThreads == 2

Uids == 1..MaxUid
Blocks == 1..MaxBlock
ScoreVals == {-1, 0, 1}
VolumeVals == {2}
Limits == -1..MaxLimit
Threads == 1..MaxThreads

(* cleanup_old_events: days * 86400 *)
Day == 86400
MaxDays == 1

(* the clock reading when the database is initialised *)
Epoch == (MaxDays + 1) * Day

(* The offset of the local time zone from UTC, in seconds, east positive  *)
UtcOffsets == {0, 3600}

(* Where a storage fault strikes inside a call: nowhere, in cursor.execute *)
(* or in conn.commit.                                                      *)
Faults == {"none", "execute", "commit"}

(* the connections a run may leave open at one time *)
MaxConnections == 1

----------------------------------------------------------------------------
(* Python and SQL primitives *)

(* Python values that may be keys of a dict: an int and a str are never    *)
(* equal, whatever they hold.                                              *)
PyInt(n) == [t |-> "int", v |-> n]
PyStr(s) == [t |-> "str", v |-> s]

DigitChars == <<"0", "1", "2", "3", "4", "5", "6", "7", "8", "9">>

RECURSIVE StrNat(_)
StrNat(n) ==
    IF n < 10 THEN <<DigitChars[n + 1]>>
    ELSE StrNat(n \div 10) \o <<DigitChars[(n % 10) + 1]>>

(* str(k) of an int *)
Str(n) == IF n < 0 THEN <<"-">> \o StrNat(-n) ELSE StrNat(n)

DigitVal(c) == CHOOSE d \in 0..9 : DigitChars[d + 1] = c

RECURSIVE ParseNat(_)
ParseNat(s) ==
    IF Len(s) = 1 THEN DigitVal(s[1])
    ELSE 10 * ParseNat(SubSeq(s, 1, Len(s) - 1)) + DigitVal(s[Len(s)])

(* the number a JSON number literal denotes *)
ParseNum(s) == IF s[1] = "-" THEN -ParseNat(Tail(s)) ELSE ParseNat(s)

(* sum() over the values of a dict *)
RECURSIVE SumValues(_)
SumValues(d) ==
    IF DOMAIN d = {} THEN 0
    ELSE LET k == CHOOSE x \in DOMAIN d : TRUE
         IN d[k] + SumValues([x \in DOMAIN d \ {k} |-> d[x]])

(* {str(k): v for k, v in d.items()} *)
StrKeys(d) ==
    [s \in {PyStr(Str(k.v)) : k \in DOMAIN d} |->
        d[CHOOSE k \in DOMAIN d : PyStr(Str(k.v)) = s]]

(* json.dumps of a dict with string keys: a JSON object, member name ->    *)
(* number literal (the order of the members of the text is not kept by     *)
(* json.loads).                                                            *)
json_dumps(d) == [k \in DOMAIN d |-> Str(d[k])]

(* json.loads of a JSON object: a dict keyed by the member names *)
json_loads(j) == [k \in DOMAIN j |-> ParseNum(j[k])]

(* json.dumps / json.loads of a list of numbers *)
json_dumps_list(l) == [i \in 1..Len(l) |-> Str(l[i])]
json_loads_list(j) == [i \in 1..Len(j) |-> ParseNum(j[i])]

(* the dicts with int keys among K and values among V *)
Dicts(K, V) == UNION {[D -> V] : D \in SUBSET {PyInt(k) : k \in K}}

(* the rows of `rows` as a sequence ordered by the integer column `col`,   *)
(* largest first (ORDER BY col DESC); rows equal in col keep an order the  *)
(* engine chooses.                                                         *)
RECURSIVE OrderByDesc(_, _)
OrderByDesc(rows, col) ==
    IF rows = {} THEN <<>>
    ELSE LET r == CHOOSE x \in rows : \A y \in rows : x[col] >= y[col]
         IN <<r>> \o OrderByDesc(rows \ {r}, col)

(* LIMIT n: a negative n is no limit *)
Limit(s, n) == IF n < 0 \/ n >= Len(s) THEN s ELSE SubSeq(s, 1, n)

(* AUTOINCREMENT of a table no row of which is ever deleted *)
NextId(rows) ==
    IF rows = {} THEN 1
    ELSE 1 + (CHOOSE m \in {r.id : r \in rows} : \A r \in rows : r.id <= m)

----------------------------------------------------------------------------
(* init_db *)

(* `last` is the call that completed last: its name, its arguments,        *)
(* whether it returned or raised, the value returned, the levels of the    *)
(* lines it logged and the storage fault that struck it.                   *)
Call(op, args, outcome, val, log) ==
    [op |-> op, args |-> args, outcome |-> outcome, val |-> val, log |-> log,
     fault |-> "none"]

Returned(op, args, val, log) == Call(op, args, "returned", val, log)
Raised(op, args) == Call(op, args, "raised", {}, <<>>)
Faulted(c, f) == [c EXCEPT !.fault = f]

(* no thread of the validator is inside a call *)
Idle == [op |-> "idle", pc |-> "idle", args |-> <<>>, pending |-> {}, val |-> {}]

(* a variant of Transaction: the connection is in autocommit mode, the     *)
(* rows of a statement that ran are kept though conn.commit() failed       *)
Autocommit(before, after, f) == IF f = "execute" THEN before ELSE after

(* The rows of a table once the call's connection is done with it: the     *)
(* rows its statement produced when conn.commit() returned, the rows       *)
(* before the call when the statement or the commit failed (what a         *)
(* connection has not committed no other connection ever sees, and it is   *)
(* rolled back when the connection is closed).                             *)
Transaction(before, after, f) == IF f = "none" THEN after ELSE before

(* the call reaches its conn.close() and hands c to its caller *)
Completes(c) ==
    /\ last' = c
    /\ connections' = connections

(* The exception of a statement or of a commit that is not inside a try:   *)
(* it leaves the function before conn.close(), the connection stays open   *)
(* and the caller gets the exception.                                      *)
Propagates(op, args, f) ==
    /\ connections < MaxConnections
    /\ connections' = connections + 1
    /\ last' = Faulted(Raised(op, args), f)

Init ==
    /\ snapshots = {}
    /\ miner_data = {}
    /\ bet_events = <<>>
    /\ wallet_mappings = <<>>
    /\ now = Epoch
    /\ utc_offset \in UtcOffsets
    /\ last = Returned("init_db", <<>>, {}, <<"info">>)
    /\ connections = 0
    /\ inflight = [t \in Threads |-> Idle]

(* a SELECT: the tables and the clock are left alone *)
Reads(op, args, v) ==
    /\ Completes(Returned(op, args, v, <<>>))
    /\ UNCHANGED <<snapshots, miner_data, bet_events, wallet_mappings,
                   now, utc_offset, inflight>>

(* A SELECT that faults: none of the readers has a try, the exception      *)
(* leaves the function before conn.close().                                *)
ReadFaults(op, args) ==
    /\ Propagates(op, args, "execute")
    /\ UNCHANGED <<snapshots, miner_data, bet_events, wallet_mappings,
                   now, utc_offset, inflight>>

----------------------------------------------------------------------------
(* Snapshot store *)

(* a variant of CountPositive: a score of zero counts *)
CountNonNegative(scores) ==
    Cardinality({k \in DOMAIN scores : scores[k] >= 0})

(* len([s for s in scores.values() if s > 0]) *)
CountPositive(scores) == Cardinality({k \in DOMAIN scores : scores[k] > 0})

(* a variant of InsertSnapshot: the snapshot of a block replaces the one   *)
(* the table holds for that block                                          *)
InsertReplacingBlock(rows, row) ==
    {r \in rows : r.block_number # row.block_number} \cup {row}

(* INSERT INTO snapshots: a new row, whatever the table holds *)
InsertSnapshot(rows, row) == rows \cup {row}

save_snapshot(block_number, scores, volumes, f) ==
    LET scores_json == json_dumps(StrKeys(scores))
        volumes_json == json_dumps(StrKeys(volumes))
        row == [id |-> NextId(snapshots),
                block_number |-> block_number,
                timestamp |-> now,
                total_miners |-> CountPositive(scores),
                total_volume |-> SumValues(volumes),
                scores_json |-> scores_json,
                volumes_json |-> volumes_json]
        args == [block_number |-> block_number, scores |-> scores,
                 volumes |-> volumes]
    IN /\ snapshots' = Transaction(snapshots, InsertSnapshot(snapshots, row), f)
       /\ IF f = "none"
          THEN Completes(Returned("save_snapshot", args, {}, <<"info">>))
          ELSE Propagates("save_snapshot", args, f)
       /\ UNCHANGED <<miner_data, bet_events, wallet_mappings, now, utc_offset,
                      inflight>>

FullSnapshot(r) ==
    [block_number |-> r.block_number,
     timestamp |-> r.timestamp,
     total_miners |-> r.total_miners,
     total_volume |-> r.total_volume,
     scores |-> json_loads(r.scores_json),
     volumes |-> json_loads(r.volumes_json)]

SnapshotSummary(r) ==
    [block_number |-> r.block_number,
     timestamp |-> r.timestamp,
     total_miners |-> r.total_miners,
     total_volume |-> r.total_volume]

(* the value get_latest_snapshot returns: {} for None *)
get_latest_snapshot_val ==
    LET rows == Limit(OrderByDesc(snapshots, "id"), 1)
    IN IF rows # <<>> THEN {FullSnapshot(rows[1])} ELSE {}

(* a variant of get_snapshots_val: ORDER BY block_number DESC *)
get_snapshots_by_block_number(limit) ==
    LET rows == Limit(OrderByDesc(snapshots, "block_number"), limit)
    IN [i \in 1..Len(rows) |-> SnapshotSummary(rows[i])]

(* the value get_snapshots(limit) returns *)
get_snapshots_val(limit) ==
    LET rows == Limit(OrderByDesc(snapshots, "id"), limit)
    IN [i \in 1..Len(rows) |-> SnapshotSummary(rows[i])]

(* the values get_snapshot_by_block may return: fetchone() takes the first *)
(* row of a SELECT without ORDER BY, whichever the engine yields first.    *)
get_snapshot_by_block_vals(block_number) ==
    LET rows == {r \in snapshots : r.block_number = block_number}
    IN IF rows # {} THEN {{FullSnapshot(r)} : r \in rows} ELSE {{}}

get_latest_snapshot ==
    Reads("get_latest_snapshot", <<>>, get_latest_snapshot_val)

get_snapshots(limit) ==
    Reads("get_snapshots", [limit |-> limit], get_snapshots_val(limit))

get_snapshot_by_block(block_number) ==
    \E v \in get_snapshot_by_block_vals(block_number) :
        Reads("get_snapshot_by_block", [block_number |-> block_number], v)

----------------------------------------------------------------------------
(* Miner state table *)

(* a variant of InsertOrReplace: a row without evm_address keeps the      *)
(* address of the row it replaces                                          *)
InsertOrMerge(rows, row, key) ==
    LET old == {r \in rows : r[key] = row[key]}
        new == IF old # {} /\ row.evm_address = {}
               THEN [row EXCEPT !.evm_address = (CHOOSE r \in old : TRUE).evm_address]
               ELSE row
    IN {r \in rows : r[key] # row[key]} \cup {new}

(* INSERT OR REPLACE on a table whose primary key is `key`: the rows in    *)
(* conflict with the new row are deleted, then the new row is inserted.    *)
InsertOrReplace(rows, row, key) ==
    {r \in rows : r[key] # row[key]} \cup {row}

(* the row the INSERT OR REPLACE of update_miner_data is given: the        *)
(* arguments of the call and CURRENT_TIMESTAMP                             *)
MinerRow(args, ts) ==
    [uid |-> args.uid,
     hotkey |-> args.hotkey,
     coldkey |-> args.coldkey,
     evm_address |-> args.evm_address,
     daily_volumes_json |-> json_dumps_list(args.daily_volumes),
     weighted_volume |-> args.weighted_volume,
     score |-> args.score,
     last_updated |-> ts]

update_miner_data(uid, hotkey, coldkey, evm_address, daily_volumes, weighted_volume, score, f) ==
    LET args == [uid |-> uid, hotkey |-> hotkey, coldkey |-> coldkey,
                 evm_address |-> evm_address, daily_volumes |-> daily_volumes,
                 weighted_volume |-> weighted_volume, score |-> score]
        row == MinerRow(args, now)
    IN /\ miner_data' = Transaction(miner_data,
                                    InsertOrReplace(miner_data, row, "uid"), f)
       /\ IF f = "none"
          THEN Completes(Returned("update_miner_data", args, {}, <<>>))
          ELSE Propagates("update_miner_data", args, f)
       /\ UNCHANGED <<snapshots, bet_events, wallet_mappings, now, utc_offset,
                      inflight>>

MinerRecord(r) ==
    [uid |-> r.uid,
     hotkey |-> r.hotkey,
     coldkey |-> r.coldkey,
     evm_address |-> r.evm_address,
     daily_volumes |-> json_loads_list(r.daily_volumes_json),
     weighted_volume |-> r.weighted_volume,
     score |-> r.score,
     last_updated |-> r.last_updated]

(* the values get_miner_data(uid) may return: fetchone() of the rows with  *)
(* this uid, {} for None                                                   *)
get_miner_data_vals(uid) ==
    LET rows == {r \in miner_data : r.uid = uid}
    IN IF rows # {} THEN {{MinerRecord(r)} : r \in rows} ELSE {{}}

(* the orders ORDER BY col DESC may yield: every arrangement of the rows   *)
(* in which col never increases                                            *)
OrderingsDesc(rows, col) ==
    {s \in [1..Cardinality(rows) -> rows] :
        /\ \A i, j \in DOMAIN s : i # j => s[i] # s[j]
        /\ \A i, j \in DOMAIN s : i < j => s[i][col] >= s[j][col]}

get_all_miner_data_vals ==
    {[i \in DOMAIN s |-> MinerRecord(s[i])] :
        s \in OrderingsDesc(miner_data, "score")}

get_miner_data(uid) ==
    \E v \in get_miner_data_vals(uid) :
        Reads("get_miner_data", [uid |-> uid], v)

get_all_miner_data ==
    \E v \in get_all_miner_data_vals : Reads("get_all_miner_data", <<>>, v)

----------------------------------------------------------------------------
(* update_miner_data and get_miner_data called by threads of the validator *)
(* at once: a call is the steps of its code, each on the connection the    *)
(* call opened.  SQLite lets one connection at a time write: the INSERT    *)
(* takes the write lock of the database file, which the connection holds   *)
(* until its transaction ends; a connection that cannot take a lock it     *)
(* needs waits, and raises "database is locked" when its timeout ends.     *)

InFlight(op, pc, args, pending, val) ==
    [op |-> op, pc |-> pc, args |-> args, pending |-> pending, val |-> val]

(* another connection has written and not ended its transaction *)
WriteLocked(t) == \E u \in Threads \ {t} : inflight[u].pending # {}

(* another connection may still hold the read lock of its SELECT *)
ReadLocked(t) ==
    \E u \in Threads \ {t} :
        inflight[u].op = "get_miner_data" /\ inflight[u].pc = "fetched"

(* conn = _get_connection(); cursor = conn.cursor() *)
Connect(t, op, args) ==
    /\ inflight[t] = Idle
    /\ inflight' = [inflight EXCEPT ![t] = InFlight(op, "connected", args, {}, {})]
    /\ connections' = connections + 1
    /\ UNCHANGED <<snapshots, miner_data, bet_events, wallet_mappings,
                   now, utc_offset, last>>

(* cursor.execute(INSERT OR REPLACE ...): the row is written inside the    *)
(* transaction of the connection, no other connection sees it yet          *)
ExecuteUpsert(t) ==
    /\ inflight[t].op = "update_miner_data"
    /\ inflight[t].pc = "connected"
    /\ ~WriteLocked(t)
    /\ inflight' = [inflight EXCEPT ![t].pc = "executed",
                                    ![t].pending = {MinerRow(inflight[t].args, now)}]
    /\ UNCHANGED <<snapshots, miner_data, bet_events, wallet_mappings,
                   now, utc_offset, last, connections>>

(* the exception of a statement or commit that timed out on a lock: the    *)
(* call ends, its connection stays open with what it holds                 *)
RaisesLocked(t, f) ==
    /\ inflight' = [inflight EXCEPT ![t].pc = "raised"]
    /\ last' = Faulted(Raised(inflight[t].op, inflight[t].args), f)
    /\ UNCHANGED <<snapshots, miner_data, bet_events, wallet_mappings,
                   now, utc_offset, connections>>

ExecuteLocked(t) ==
    /\ inflight[t].op = "update_miner_data"
    /\ inflight[t].pc = "connected"
    /\ WriteLocked(t)
    /\ RaisesLocked(t, "execute")

(* conn.commit(): the row replaces, as a whole, the row of its uid *)
CommitUpsert(t) ==
    /\ inflight[t].op = "update_miner_data"
    /\ inflight[t].pc = "executed"
    /\ miner_data' = UNION {InsertOrReplace(miner_data, row, "uid") :
                              row \in inflight[t].pending}
    /\ inflight' = [inflight EXCEPT ![t].pc = "committed", ![t].pending = {}]
    /\ UNCHANGED <<snapshots, bet_events, wallet_mappings,
                   now, utc_offset, last, connections>>

CommitLocked(t) ==
    /\ inflight[t].op = "update_miner_data"
    /\ inflight[t].pc = "executed"
    /\ ReadLocked(t)
    /\ RaisesLocked(t, "commit")

(* cursor.execute(SELECT ...); row = cursor.fetchone(): what is committed *)
SelectMiner(t) ==
    /\ inflight[t].op = "get_miner_data"
    /\ inflight[t].pc = "connected"
    /\ \E v \in get_miner_data_vals(inflight[t].args.uid) :
          inflight' = [inflight EXCEPT ![t].pc = "fetched", ![t].val = v]
    /\ UNCHANGED <<snapshots, miner_data, bet_events, wallet_mappings,
                   now, utc_offset, last, connections>>

(* conn.close() and the return to the caller *)
CloseAndReturn(t) ==
    /\ inflight[t].pc \in {"committed", "fetched"}
    /\ inflight' = [inflight EXCEPT ![t] = Idle]
    /\ connections' = connections - 1
    /\ last' = Returned(inflight[t].op, inflight[t].args, inflight[t].val, <<>>)
    /\ UNCHANGED <<snapshots, miner_data, bet_events, wallet_mappings,
                   now, utc_offset>>

(* the connection of a call that raised is finalised: its transaction is   *)
(* rolled back and its locks are released                                  *)
FinalizeRaised(t) ==
    /\ inflight[t].pc = "raised"
    /\ inflight' = [inflight EXCEPT ![t] = Idle]
    /\ connections' = connections - 1
    /\ UNCHANGED <<snapshots, miner_data, bet_events, wallet_mappings,
                   now, utc_offset, last>>

----------------------------------------------------------------------------
(* Event cache *)

(* a variant of UniqueConflict: UNIQUE(evm_address, game_id, block_number) *)
UniqueConflictWithoutSide(rows, row) ==
    \E i \in DOMAIN rows :
        /\ rows[i].evm_address = row.evm_address
        /\ rows[i].game_id = row.game_id
        /\ rows[i].block_number = row.block_number

(* the UNIQUE(evm_address, game_id, block_number, side) constraint: some   *)
(* row of the table is in conflict with the new row                        *)
UniqueConflict(rows, row) ==
    \E i \in DOMAIN rows :
        /\ rows[i].evm_address = row.evm_address
        /\ rows[i].game_id = row.game_id
        /\ rows[i].block_number = row.block_number
        /\ rows[i].side = row.side

(* a variant of InsertOrIgnore: a plain INSERT into a table without the   *)
(* UNIQUE constraint                                                       *)
InsertAlways(rows, row) == Append(rows, row)

(* INSERT OR IGNORE *)
InsertOrIgnore(rows, row) ==
    IF UniqueConflict(rows, row) THEN rows ELSE Append(rows, row)

(* the try / except Exception / finally of cache_bet_event: a fault of the *)
(* statement or of the commit is logged at debug level and the call        *)
(* returns None                                                            *)
cache_bet_event(evm_address, game_id, amount, side, block_number, timestamp, f) ==
    LET row == [evm_address |-> evm_address,
                game_id |-> game_id,
                amount |-> amount,
                side |-> side,
                block_number |-> block_number,
                timestamp |-> timestamp]
    IN /\ bet_events' = Transaction(bet_events, InsertOrIgnore(bet_events, row), f)
       /\ IF f = "none"
          THEN Completes(Returned("cache_bet_event", row, {}, <<>>))
          ELSE Completes(Faulted(Returned("cache_bet_event", row, {}, <<"debug">>), f))
       /\ UNCHANGED <<snapshots, miner_data, wallet_mappings, now, utc_offset,
                      inflight>>

EventRecord(r) ==
    [game_id |-> r.game_id,
     amount |-> r.amount,
     side |-> r.side,
     block_number |-> r.block_number,
     timestamp |-> r.timestamp]

(* the arrangements of the rows at the positions idx in which the integer  *)
(* column col never increases                                              *)
PositionsDesc(rows, idx, col) ==
    {t \in [1..Cardinality(idx) -> idx] :
        /\ \A i, j \in DOMAIN t : i # j => t[i] # t[j]
        /\ \A i, j \in DOMAIN t : i < j => rows[t[i]][col] >= rows[t[j]][col]}

(* a variant of get_cached_bet_events_vals: WHERE ... AND timestamp > ? *)
get_cached_bet_events_after(evm_address, since_timestamp) ==
    LET Match(r) == r.evm_address = evm_address /\ r.timestamp > since_timestamp
    IN {[i \in DOMAIN t |-> EventRecord(bet_events[t[i]])] :
          t \in PositionsDesc(bet_events, {i \in DOMAIN bet_events : Match(bet_events[i])}, "timestamp")}

(* the values get_cached_bet_events may return *)
get_cached_bet_events_vals(evm_address, since_timestamp) ==
    LET Match(r) == r.evm_address = evm_address /\ r.timestamp >= since_timestamp
    IN {[i \in DOMAIN t |-> EventRecord(bet_events[t[i]])] :
          t \in PositionsDesc(bet_events, {i \in DOMAIN bet_events : Match(bet_events[i])}, "timestamp")}

get_cached_bet_events(evm_address, since_timestamp) ==
    \E v \in get_cached_bet_events_vals(evm_address, since_timestamp) :
        Reads("get_cached_bet_events",
              [evm_address |-> evm_address, since_timestamp |-> since_timestamp],
              v)

(* int(datetime.utcnow().timestamp()): utcnow() is the naive UTC wall      *)
(* clock, and timestamp() of a naive datetime reads it as local time, so   *)
(* the result is the Unix time less the offset of the local zone from UTC. *)
UtcNowTimestamp == now - utc_offset

(* a variant of DeleteOlder: only the first of the older rows is deleted *)
DeleteOneOlder(rows, cutoff) ==
    LET old == {i \in DOMAIN rows : rows[i].timestamp < cutoff}
        m == CHOOSE i \in old : \A j \in old : i <= j
    IN IF old = {} THEN rows
       ELSE SubSeq(rows, 1, m - 1) \o SubSeq(rows, m + 1, Len(rows))

(* DELETE FROM bet_events WHERE timestamp < cutoff *)
DeleteOlder(rows, cutoff) ==
    LET Keep(r) == ~(r.timestamp < cutoff)
    IN SelectSeq(rows, Keep)

cleanup_old_events(days, f) ==
    LET utcnow == UtcNowTimestamp
        cutoff == utcnow - (days * Day)
        deleted == Len(bet_events) - Len(DeleteOlder(bet_events, cutoff))
        args == [days |-> days, utcnow |-> utcnow]
    IN /\ bet_events' = Transaction(bet_events, DeleteOlder(bet_events, cutoff), f)
       /\ IF f = "none"
          THEN Completes(Returned("cleanup_old_events", args, {},
                                  IF deleted > 0 THEN <<<<"info", deleted>>>>
                                  ELSE <<>>))
          ELSE Propagates("cleanup_old_events", args, f)
       /\ UNCHANGED <<snapshots, miner_data, wallet_mappings, now, utc_offset,
                      inflight>>

----------------------------------------------------------------------------
(* Wallet mapping table *)

UpperChars == <<"A", "B", "C", "D", "E", "F">>
LowerChars == <<"a", "b", "c", "d", "e", "f">>

(* a variant of lower: the address is stored as given *)
keep_case(s) == s

(* str.lower() *)
lower(s) ==
    [i \in 1..Len(s) |->
        IF \E n \in DOMAIN UpperChars : UpperChars[n] = s[i]
        THEN LowerChars[CHOOSE n \in DOMAIN UpperChars : UpperChars[n] = s[i]]
        ELSE s[i]]

(* a variant of ReplaceMapping: a plain INSERT into a table without the    *)
(* UNIQUE constraint on coldkey                                            *)
AppendMapping(rows, row) == Append(rows, row)

(* a variant of ReplaceMapping: evm_address is UNIQUE as well, the rows of *)
(* the same address are replaced too                                       *)
ReplaceMappingAndAddress(rows, row) ==
    LET Other(r) == r.coldkey # row.coldkey /\ r.evm_address # row.evm_address
    IN Append(SelectSeq(rows, Other), row)

(* INSERT OR REPLACE on the UNIQUE coldkey of wallet_mappings: the row in  *)
(* conflict is deleted and the new row gets a new rowid                    *)
ReplaceMapping(rows, row) ==
    LET Other(r) == r.coldkey # row.coldkey
    IN Append(SelectSeq(rows, Other), row)

(* a variant of ReturnsFalse: the except clause raises the exception again *)
Reraises(op, args, f) == Propagates(op, args, f)

(* except Exception of save_wallet_mapping: the fault is logged as an      *)
(* error, finally closes the connection and the call returns False         *)
ReturnsFalse(op, args, f) ==
    Completes(Faulted(Returned(op, args, FALSE, <<"error">>), f))

save_wallet_mapping(coldkey, evm_address, signature, message, timestamp, f) ==
    LET row == [coldkey |-> coldkey,
                evm_address |-> lower(evm_address),
                signature |-> signature,
                message |-> message,
                timestamp |-> timestamp,
                verified_at |-> now]
        args == [coldkey |-> coldkey, evm_address |-> evm_address,
                 signature |-> signature, message |-> message,
                 timestamp |-> timestamp]
    IN /\ wallet_mappings' = Transaction(wallet_mappings,
                                         ReplaceMapping(wallet_mappings, row), f)
       /\ IF f = "none"
          THEN Completes(Returned("save_wallet_mapping", args, TRUE, <<"info">>))
          ELSE ReturnsFalse("save_wallet_mapping", args, f)
       /\ UNCHANGED <<snapshots, miner_data, bet_events, now, utc_offset,
                      inflight>>

MappingRecord(r) ==
    [coldkey |-> r.coldkey,
     evm_address |-> r.evm_address,
     signature |-> r.signature,
     message |-> r.message,
     timestamp |-> r.timestamp,
     verified_at |-> r.verified_at]

MappingSummary(r) ==
    [coldkey |-> r.coldkey,
     evm_address |-> r.evm_address,
     timestamp |-> r.timestamp,
     verified_at |-> r.verified_at]

(* the values get_wallet_mapping(coldkey) may return, {} for None *)
get_wallet_mapping_vals(coldkey) ==
    LET Match(r) == r.coldkey = coldkey
        idx == {i \in DOMAIN wallet_mappings : Match(wallet_mappings[i])}
    IN IF idx # {} THEN {{MappingRecord(wallet_mappings[i])} : i \in idx}
       ELSE {{}}

(* mapping['evm_address'] if mapping else None *)
get_evm_address_for_coldkey_vals(coldkey) ==
    {{m.evm_address : m \in v} : v \in get_wallet_mapping_vals(coldkey)}

(* the values get_all_wallet_mappings may return *)
get_all_wallet_mappings_vals ==
    {[i \in DOMAIN t |-> MappingSummary(wallet_mappings[t[i]])] :
        t \in PositionsDesc(wallet_mappings, DOMAIN wallet_mappings,
                            "verified_at")}

get_wallet_mapping(coldkey) ==
    \E v \in get_wallet_mapping_vals(coldkey) :
        Reads("get_wallet_mapping", [coldkey |-> coldkey], v)

get_evm_address_for_coldkey(coldkey) ==
    \E v \in get_evm_address_for_coldkey_vals(coldkey) :
        Reads("get_evm_address_for_coldkey", [coldkey |-> coldkey], v)

get_all_wallet_mappings ==
    \E v \in get_all_wallet_mappings_vals :
        Reads("get_all_wallet_mappings", <<>>, v)

(* a variant of DeleteMapping: DELETE FROM wallet_mappings without WHERE *)
DeleteAllMappings(rows, coldkey) == <<>>

(* DELETE FROM wallet_mappings WHERE coldkey = ? *)
DeleteMapping(rows, coldkey) ==
    LET Other(r) == r.coldkey # coldkey
    IN SelectSeq(rows, Other)

delete_wallet_mapping(coldkey, f) ==
    LET after == DeleteMapping(wallet_mappings, coldkey)
        rowcount == Len(wallet_mappings) - Len(after)
        deleted == rowcount > 0
        args == [coldkey |-> coldkey]
    IN /\ wallet_mappings' = Transaction(wallet_mappings, after, f)
       /\ IF f = "none"
          THEN Completes(Returned("delete_wallet_mapping", args, deleted, <<>>))
          ELSE Propagates("delete_wallet_mapping", args, f)
       /\ UNCHANGED <<snapshots, miner_data, bet_events, now, utc_offset,
                      inflight>>

----------------------------------------------------------------------------
(* The callers of the layer: every operation, with inputs from small sets *)

MaxEvents == 2
MaxDailyLen == 1
AddrLen == 1

AddrChars == {"a", "A", "b"}
Addresses == [1..AddrLen -> AddrChars]
(* miner_data.evm_address is stored as given: None or an address *)
MinerEvms == {{}, {[i \in 1..AddrLen |-> "a"]}}
Hotkeys == {"hk1", "hk2"}
Coldkeys == {"ck1", "ck2"}
DailyVolumes == UNION {[1..n -> VolumeVals] : n \in 0..MaxDailyLen}
WeightedVolumes == {1, 2}
Scores == {0, 1}
GameIds == {1, 2}
Sides == {0, 1}
Amounts == {1, 2}
Days == 0..MaxDays
Timestamps == {Epoch - (MaxDays * Day) + d : d \in {-1, 0, 1}}
(* the signed messages a wallet is verified with: signature, message and   *)
(* timestamp in milliseconds                                               *)
Proofs == {<<"sig1", "msg1", 1000>>, <<"sig2", "msg2", 2000>>}

(* the keys of the cached events: one key and the keys that differ from it *)
(* in one column                                                           *)
BaseKey == <<[i \in 1..AddrLen |-> "a"], 1, 1, 0>>
EventKeys ==
    {k \in Addresses \X GameIds \X Blocks \X Sides :
        Cardinality({i \in 1..4 : k[i] # BaseKey[i]}) <= 1}

(* the calls of each operation with arguments among the given sets and    *)
(* storage faults among F                                                  *)
SaveSnapshotCalls(B, S, V, F) ==
    \E b \in B, s \in S, v \in V, f \in F : save_snapshot(b, s, v, f)

UpdateMinerDataCalls(U, H, C, E, D, W, S, F) ==
    \E uid \in U, hk \in H, ck \in C, evm \in E, dv \in D, wv \in W,
       sc \in S, f \in F :
        update_miner_data(uid, hk, ck, evm, dv, wv, sc, f)

CacheBetEventCalls(K, A, T, F) ==
    \E k \in K, amt \in A, t \in T, f \in F :
        cache_bet_event(k[1], k[2], amt, k[4], k[3], t, f)

CleanupOldEventsCalls(F) ==
    \E d \in Days, f \in F : cleanup_old_events(d, f)

SaveWalletMappingCalls(C, A, S, M, T, F) ==
    \E ck \in C, a \in A, sg \in S, m \in M, t \in T, f \in F :
        save_wallet_mapping(ck, a, sg, m, t, f)

DeleteWalletMappingCalls(F) ==
    \E ck \in Coldkeys, f \in F : delete_wallet_mapping(ck, f)

NoFault == {"none"}

SaveSnapshotOp ==
    /\ Cardinality(snapshots) < MaxSnapshots
    /\ SaveSnapshotCalls(Blocks, Dicts(Uids, ScoreVals),
                         Dicts(Uids, VolumeVals), NoFault)

GetLatestSnapshotOp == get_latest_snapshot
GetSnapshotsOp == \E l \in Limits : get_snapshots(l)
GetSnapshotByBlockOp == \E b \in Blocks : get_snapshot_by_block(b)

UpdateMinerDataOp ==
    UpdateMinerDataCalls(Uids, Hotkeys, Coldkeys, MinerEvms, DailyVolumes,
                         WeightedVolumes, Scores, NoFault)

GetMinerDataOp == \E uid \in Uids : get_miner_data(uid)
GetAllMinerDataOp == get_all_miner_data

CacheBetEventOp ==
    /\ Len(bet_events) < MaxEvents
    /\ CacheBetEventCalls(EventKeys, Amounts, Timestamps, Faults)

GetCachedBetEventsOp ==
    \E a \in Addresses, t \in Timestamps : get_cached_bet_events(a, t)

CleanupOldEventsOp == CleanupOldEventsCalls(Faults)

SaveWalletMappingOp ==
    \E p \in Proofs :
        SaveWalletMappingCalls(Coldkeys, Addresses, {p[1]}, {p[2]}, {p[3]},
                               Faults)

GetWalletMappingOp == \E ck \in Coldkeys : get_wallet_mapping(ck)
GetEvmAddressForColdkeyOp == \E ck \in Coldkeys : get_evm_address_for_coldkey(ck)
GetAllWalletMappingsOp == get_all_wallet_mappings
DeleteWalletMappingOp == DeleteWalletMappingCalls(NoFault)

(* the validator's clock *)
Tick ==
    /\ now < Epoch + MaxTicks
    /\ now' = now + 1
    /\ UNCHANGED <<snapshots, miner_data, bet_events, wallet_mappings,
                   utc_offset, last, connections, inflight>>

(* The interpreter finalises a connection object that a failed call left   *)
(* open, once the caller has let go of the exception that refers to it:    *)
(* sqlite3 closes the connection then.                                     *)
Finalize ==
    /\ connections > 0
    /\ connections' = connections - 1
    /\ UNCHANGED <<snapshots, miner_data, bet_events, wallet_mappings,
                   now, utc_offset, last, inflight>>

NextSnapshots ==
    \/ SaveSnapshotOp
    \/ GetLatestSnapshotOp
    \/ GetSnapshotsOp
    \/ GetSnapshotByBlockOp

NextMiners ==
    \/ UpdateMinerDataOp
    \/ GetMinerDataOp
    \/ GetAllMinerDataOp

NextEvents ==
    \/ CacheBetEventOp
    \/ GetCachedBetEventsOp
    \/ CleanupOldEventsOp
    \/ Tick
    \/ Finalize

NextWallets ==
    \/ SaveWalletMappingOp
    \/ GetWalletMappingOp
    \/ GetEvmAddressForColdkeyOp
    \/ GetAllWalletMappingsOp
    \/ DeleteWalletMappingOp
    \/ Tick

(* Every operation of the layer, with storage faults, on tables of at most *)
(* MaxRows rows in all and arguments from smaller sets.                    *)
MaxRows == 2

TotalRows(s, m, e, w) == Cardinality(s) + Cardinality(m) + Len(e) + Len(w)

FewScores == Dicts({1}, {1})
FewVolumes == Dicts({1}, VolumeVals)
FewKeys == {k \in EventKeys : k[2] = BaseKey[2] /\ k[3] = BaseKey[3]}
OneTimestamp == {Epoch - (MaxDays * Day)}

(* the reads of the layer: name and arguments *)
ReadCalls ==
    {<<"get_latest_snapshot", <<>>>>, <<"get_all_miner_data", <<>>>>,
     <<"get_all_wallet_mappings", <<>>>>}
    \cup {<<"get_snapshots", [limit |-> l]>> : l \in Limits}
    \cup {<<"get_snapshot_by_block", [block_number |-> b]>> : b \in Blocks}
    \cup {<<"get_miner_data", [uid |-> u]>> : u \in Uids}
    \cup {<<"get_cached_bet_events", [evm_address |-> a, since_timestamp |-> t]>> :
             a \in Addresses, t \in OneTimestamp}
    \cup {<<"get_wallet_mapping", [coldkey |-> c]>> : c \in Coldkeys}
    \cup {<<"get_evm_address_for_coldkey", [coldkey |-> c]>> : c \in Coldkeys}

ReadFaultOp == \E c \in ReadCalls : ReadFaults(c[1], c[2])

NextAll ==
    /\ \/ SaveSnapshotCalls(Blocks, FewScores, FewVolumes, Faults)
       \/ GetLatestSnapshotOp
       \/ GetSnapshotsOp
       \/ GetSnapshotByBlockOp
       \/ UpdateMinerDataCalls(Uids, {"hk1"}, {"ck1"}, MinerEvms, {<<>>},
                               {1}, Scores, Faults)
       \/ GetMinerDataOp
       \/ GetAllMinerDataOp
       \/ CacheBetEventCalls(FewKeys, {1}, OneTimestamp, Faults)
       \/ \E a \in Addresses, t \in OneTimestamp : get_cached_bet_events(a, t)
       \/ CleanupOldEventsCalls(Faults)
       \/ SaveWalletMappingCalls(Coldkeys, Addresses, {"sig1"}, {"msg1"},
                                 {1000}, Faults)
       \/ GetWalletMappingOp
       \/ GetEvmAddressForColdkeyOp
       \/ GetAllWalletMappingsOp
       \/ DeleteWalletMappingCalls(Faults)
       \/ ReadFaultOp
       \/ Finalize
    /\ TotalRows(snapshots', miner_data', bet_events', wallet_mappings') <= MaxRows

(* the arguments of the upserts that run at once *)
ConcurrentUpserts ==
    [uid : Uids, hotkey : Hotkeys, coldkey : {"ck1"}, evm_address : MinerEvms,
     daily_volumes : {<<>>}, weighted_volume : {1}, score : {0}]

NextConcurrent ==
    \E t \in Threads :
        \/ \E args \in ConcurrentUpserts : Connect(t, "update_miner_data", args)
        \/ \E uid \in Uids : Connect(t, "get_miner_data", [uid |-> uid])
        \/ ExecuteUpsert(t)
        \/ ExecuteLocked(t)
        \/ CommitUpsert(t)
        \/ CommitLocked(t)
        \/ SelectMiner(t)
        \/ CloseAndReturn(t)
        \/ FinalizeRaised(t)

(* only cleanup_old_events reads the time zone: the specifications of the *)
(* other tables fix it                                                     *)
(* the state after init_db on a machine whose local zone is UTC *)
InitUtc == Init /\ utc_offset = 0

SpecSnapshots == InitUtc /\ [][NextSnapshots]_vars
SpecMiners == InitUtc /\ [][NextMiners]_vars
SpecEvents == Init /\ [][NextEvents]_vars
SpecWallets == InitUtc /\ [][NextWallets]_vars
SpecAll == Init /\ [][NextAll]_vars
SpecConcurrent == InitUtc /\ [][NextConcurrent]_vars

----------------------------------------------------------------------------
(* Properties *)

(* a step of the operation op: every operation names itself in `last` and  *)
(* leaves the clock alone, and Tick leaves `last` alone                    *)
Step(op) == last'.op = op /\ now' = now /\ connections' >= connections

Succeeded(op) == last.op = op /\ last.outcome = "returned"

Min(a, b) == IF a <= b THEN a ELSE b

SameKey(r, q) ==
    /\ r.evm_address = q.evm_address
    /\ r.game_id = q.game_id
    /\ r.block_number = q.block_number
    /\ r.side = q.side

KeyPresent(rows, r) == \E i \in DOMAIN rows : SameKey(rows[i], r)

NoDuplicateKeys ==
    \A i, j \in DOMAIN bet_events :
        SameKey(bet_events[i], bet_events[j]) => i = j

(* C1: bet_events never holds two rows with the same (evm_address,         *)
(* game_id, block_number, side); a cache_bet_event call whose key is       *)
(* already present leaves the table as it is and returns without raising,  *)
(* also when the engine faults.                                            *)
C1_DuplicateInsertIsNoOp ==
    /\ []NoDuplicateKeys
    /\ [][(Step("cache_bet_event") /\ KeyPresent(bet_events, last'.args))
            => (bet_events' = bet_events /\ last'.outcome = "returned")]_vars

(* a call for a key already cached, with another amount, has returned *)
C1_Witness ==
    /\ Succeeded("cache_bet_event")
    /\ \E i \in DOMAIN bet_events :
        /\ SameKey(bet_events[i], last.args)
        /\ bet_events[i].amount # last.args.amount

(* C2: the dedup key is exactly the four columns: a call that runs without *)
(* fault appends its row when no row has its key and changes nothing when  *)
(* one has, whatever the amount and timestamp; and no step changes a row   *)
(* that stays in the table.                                                *)
C2_DedupKeyIsFourColumns ==
    [][/\ (Step("cache_bet_event") /\ last'.log = <<>>)
          => IF KeyPresent(bet_events, last'.args)
             THEN bet_events' = bet_events
             ELSE bet_events' = Append(bet_events, last'.args)
       /\ \A i \in DOMAIN bet_events, j \in DOMAIN bet_events' :
            SameKey(bet_events[i], bet_events'[j])
              => bet_events'[j] = bet_events[i]]_vars

(* two rows that differ in side only, the second just cached *)
C2_Witness ==
    /\ Succeeded("cache_bet_event")
    /\ Len(bet_events) = 2
    /\ bet_events[2] = last.args
    /\ bet_events[1].evm_address = bet_events[2].evm_address
    /\ bet_events[1].game_id = bet_events[2].game_id
    /\ bet_events[1].block_number = bet_events[2].block_number
    /\ bet_events[1].side # bet_events[2].side

(* the rows with timestamp >= cutoff, in their order *)
KeepFrom(rows, cutoff) ==
    LET Kept(r) == r.timestamp >= cutoff
    IN SelectSeq(rows, Kept)

(* C3: a cleanup_old_events(days) that returns has deleted exactly the     *)
(* rows with timestamp < now - days * 86400, now being the Unix time of    *)
(* the call.                                                               *)
C3_PurgeCutoffIsUnixTime ==
    [][(Step("cleanup_old_events") /\ last'.outcome = "returned")
         => bet_events' = KeepFrom(bet_events, now - (last'.args.days * Day))]_vars

(* a second cleanup_old_events with the same days right after a first *)
SecondPurge ==
    /\ Succeeded("cleanup_old_events")
    /\ Step("cleanup_old_events")
    /\ last'.outcome = "returned"
    /\ last'.args.days = last.args.days

(* C4 as stated: the second of two purges in succession with the same days *)
(* removes no row.                                                         *)
C4_SecondPurgeRemovesNothing ==
    [][SecondPurge => (bet_events' = bet_events /\ last'.log = <<>>)]_vars

(* C4 amended: the second purge removes no row when it reads the same      *)
(* clock value as the first; in general it removes exactly the rows whose  *)
(* timestamp is at least the first cutoff and below the second.            *)
C4_SecondPurgeSameClock ==
    [][SecondPurge =>
        LET cutoff1 == last.args.utcnow - (last.args.days * Day)
            cutoff2 == last'.args.utcnow - (last'.args.days * Day)
        IN /\ \A i \in DOMAIN bet_events : bet_events[i].timestamp >= cutoff1
           /\ bet_events' = KeepFrom(bet_events, cutoff2)
           /\ cutoff2 = cutoff1 => (bet_events' = bet_events /\ last'.log = <<>>)]_vars

(* a purge has returned and left a row whose timestamp is its cutoff *)
C4_Witness ==
    /\ Succeeded("cleanup_old_events")
    /\ \E i \in DOMAIN bet_events :
        bet_events[i].timestamp = last.args.utcnow - (last.args.days * Day)

(* C5: right after a save_snapshot that returned, get_latest_snapshot      *)
(* returns its record: the block_number given, total_miners the number of  *)
(* scores > 0, total_volume the sum of the volumes; on an empty table it   *)
(* returns None.                                                           *)
C5_LatestIsJustWritten ==
    /\ snapshots = {} => get_latest_snapshot_val = {}
    /\ Succeeded("save_snapshot") =>
        /\ Cardinality(get_latest_snapshot_val) = 1
        /\ \A r \in get_latest_snapshot_val :
            /\ r.block_number = last.args.block_number
            /\ r.total_miners =
                 Cardinality({k \in DOMAIN last.args.scores :
                                last.args.scores[k] > 0})
            /\ r.total_volume = SumValues(last.args.volumes)

(* a second snapshot whose scores are one positive and one not *)
C5_Witness ==
    /\ Succeeded("save_snapshot")
    /\ Cardinality(snapshots) = 2
    /\ Cardinality(DOMAIN last.args.scores) = 2
    /\ \E r \in get_latest_snapshot_val :
        r.total_miners = 1 /\ r.total_volume = 4

(* C6: right after a save_snapshot that returned, the scores and volumes   *)
(* that get_latest_snapshot and get_snapshot_by_block return for it map    *)
(* the keys given to the values given, and have no other keys.             *)
C6_MappingsRoundTripByKey ==
    Succeeded("save_snapshot") =>
        /\ \A r \in get_latest_snapshot_val :
            r.scores = last.args.scores /\ r.volumes = last.args.volumes
        /\ \E v \in get_snapshot_by_block_vals(last.args.block_number) :
            \A r \in v :
                r.scores = last.args.scores /\ r.volumes = last.args.volumes

(* C7: get_snapshots(limit) returns the min(limit, n) snapshots inserted   *)
(* last, newest first, and get_latest_snapshot the one inserted last,      *)
(* whatever the block numbers: a save_snapshot that returns puts its       *)
(* summary in front of what get_snapshots returned before.                 *)
C7_RecencyIsInsertionOrder ==
    /\ [](\A l \in 0..MaxLimit :
            Len(get_snapshots_val(l)) = Min(l, Cardinality(snapshots)))
    /\ [][(Step("save_snapshot") /\ last'.outcome = "returned") =>
            LET new == [block_number |-> last'.args.block_number,
                        timestamp |-> now,
                        total_miners |-> CountPositive(last'.args.scores),
                        total_volume |-> SumValues(last'.args.volumes)]
            IN /\ \A l \in 1..MaxLimit :
                    get_snapshots_val(l)' = <<new>> \o get_snapshots_val(l - 1)
               /\ \A r \in get_latest_snapshot_val' : SnapshotSummary(r) = new
               /\ get_latest_snapshot_val' # {}]_vars

(* get_snapshots(1) has returned the second of two snapshots, whose block  *)
(* number is not above the first's                                         *)
C7_Witness ==
    /\ Succeeded("get_snapshots")
    /\ last.args.limit = 1
    /\ \E r1, r2 \in snapshots :
        /\ r1.id < r2.id
        /\ r2.block_number <= r1.block_number
        /\ r1.total_miners # r2.total_miners
        /\ last.val = <<SnapshotSummary(r2)>>

(* C8: the snapshots table only changes by a save_snapshot that returns,   *)
(* which adds one row with an id above all others; no row is ever changed  *)
(* or deleted.                                                             *)
C8_SnapshotsAppendOnly ==
    [][snapshots' # snapshots =>
        /\ Step("save_snapshot")
        /\ last'.outcome = "returned"
        /\ snapshots \subseteq snapshots'
        /\ Cardinality(snapshots') = Cardinality(snapshots) + 1
        /\ \A r \in snapshots' \ snapshots, q \in snapshots : r.id > q.id]_vars

(* a purge has deleted a cached event while a snapshot is stored *)
C8_Witness ==
    /\ Succeeded("cleanup_old_events")
    /\ last.log # <<>>
    /\ snapshots # {}

(* C9: miner_data holds at most one row per uid, and right after an        *)
(* update_miner_data that returned, get_miner_data(uid) returns the fields *)
(* of that call, a None evm_address included.                              *)
C9_UpsertReplacesWholeRow ==
    /\ \A u \in Uids : Cardinality({r \in miner_data : r.uid = u}) <= 1
    /\ Succeeded("update_miner_data") =>
        \A v \in get_miner_data_vals(last.args.uid) :
            /\ Cardinality(v) = 1
            /\ \A r \in v :
                /\ r.uid = last.args.uid
                /\ r.hotkey = last.args.hotkey
                /\ r.coldkey = last.args.coldkey
                /\ r.evm_address = last.args.evm_address
                /\ r.daily_volumes = last.args.daily_volumes
                /\ r.weighted_volume = last.args.weighted_volume
                /\ r.score = last.args.score

(* an upsert without address has returned, both uids having a row *)
C9_Witness ==
    /\ Succeeded("update_miner_data")
    /\ last.args.evm_address = {}
    /\ last.args.daily_volumes # <<>>
    /\ Cardinality(miner_data) = 2

IsUpper(c) == \E n \in DOMAIN UpperChars : UpperChars[n] = c

(* r is a with every upper case letter replaced by its lower case letter *)
IsLowerOf(r, a) ==
    /\ Len(r) = Len(a)
    /\ \A i \in DOMAIN a :
        IF IsUpper(a[i])
        THEN \E n \in DOMAIN UpperChars :
                UpperChars[n] = a[i] /\ LowerChars[n] = r[i]
        ELSE r[i] = a[i]

(* C10: no stored mapping has an upper case letter in evm_address, and     *)
(* right after a save_wallet_mapping that returned True the three reads    *)
(* give the lower case form of the address given.                          *)
C10_AddressStoredLowercase ==
    /\ \A i \in DOMAIN wallet_mappings :
        \A n \in DOMAIN wallet_mappings[i].evm_address :
            ~IsUpper(wallet_mappings[i].evm_address[n])
    /\ (Succeeded("save_wallet_mapping") /\ last.val = TRUE) =>
        /\ \A v \in get_wallet_mapping_vals(last.args.coldkey) :
            /\ v # {}
            /\ \A m \in v : IsLowerOf(m.evm_address, last.args.evm_address)
        /\ \A v \in get_evm_address_for_coldkey_vals(last.args.coldkey) :
            /\ v # {}
            /\ \A a \in v : IsLowerOf(a, last.args.evm_address)
        /\ \A l \in get_all_wallet_mappings_vals :
            \E i \in DOMAIN l :
                /\ l[i].coldkey = last.args.coldkey
                /\ IsLowerOf(l[i].evm_address, last.args.evm_address)

(* an address with an upper case letter has been saved over a mapping of   *)
(* the other coldkey                                                       *)
C10_Witness ==
    /\ Succeeded("save_wallet_mapping")
    /\ last.val = TRUE
    /\ \E n \in DOMAIN last.args.evm_address : IsUpper(last.args.evm_address[n])
    /\ Len(wallet_mappings) = 2

(* the rows of wallet_mappings for a coldkey *)
MappingsOf(rows, c) == {i \in DOMAIN rows : rows[i].coldkey = c}

(* C11: wallet_mappings holds at most one row per coldkey; a               *)
(* save_wallet_mapping that returns True leaves exactly one row for its    *)
(* coldkey, whatever the table held, and get_evm_address_for_coldkey and   *)
(* get_wallet_mapping then return the address (lower case), signature,     *)
(* message and timestamp of that call; what the two reads return for a     *)
(* coldkey changes only by a save that returns True or a delete for it.    *)
C11_OneMappingPerColdkey ==
    /\ [](\A c \in Coldkeys : Cardinality(MappingsOf(wallet_mappings, c)) <= 1)
    /\ [][(Step("save_wallet_mapping") /\ last'.val = TRUE) =>
            \A c \in Coldkeys : last'.args.coldkey = c =>
               /\ Cardinality(MappingsOf(wallet_mappings', c)) = 1
               /\ \A v \in get_evm_address_for_coldkey_vals(c)' :
                    /\ v # {}
                    /\ \A e \in v : IsLowerOf(e, last'.args.evm_address)
               /\ \A v \in get_wallet_mapping_vals(c)' :
                    /\ v # {}
                    /\ \A m \in v : /\ m.signature = last'.args.signature
                                    /\ m.message = last'.args.message
                                    /\ m.timestamp = last'.args.timestamp]_vars
    /\ [][\A c \in Coldkeys :
            (get_wallet_mapping_vals(c)' # get_wallet_mapping_vals(c))
              => \/ Step("save_wallet_mapping") /\ last'.val = TRUE
                                                /\ last'.args.coldkey = c
                 \/ Step("delete_wallet_mapping") /\ last'.args.coldkey = c]_vars

(* a save has failed for a coldkey whose mapping, saved before with        *)
(* another address, signature, message and timestamp, is the only one of   *)
(* that coldkey                                                            *)
C11_Witness ==
    /\ Succeeded("save_wallet_mapping")
    /\ last.val = FALSE
    /\ Len(wallet_mappings) = 2
    /\ \E i \in MappingsOf(wallet_mappings, last.args.coldkey) :
        /\ ~IsLowerOf(wallet_mappings[i].evm_address, last.args.evm_address)
        /\ wallet_mappings[i].signature # last.args.signature
        /\ wallet_mappings[i].message # last.args.message
        /\ wallet_mappings[i].timestamp # last.args.timestamp

(* C12: a delete_wallet_mapping(coldkey) that returns gives True exactly    *)
(* when the table held a mapping for the coldkey; when it held none the    *)
(* table is left as it is; after the call the two lookups of the coldkey   *)
(* find nothing; and a second delete of the same coldkey right after gives *)
(* False.                                                                  *)
C12_DeleteReportsRemoval ==
    /\ [][(Step("delete_wallet_mapping") /\ last'.outcome = "returned") =>
            \A c \in Coldkeys : last'.args.coldkey = c =>
               /\ last'.val = (MappingsOf(wallet_mappings, c) # {})
               /\ (MappingsOf(wallet_mappings, c) = {})
                    => wallet_mappings' = wallet_mappings
               /\ MappingsOf(wallet_mappings', c) = {}
               /\ get_wallet_mapping_vals(c)' = {{}}
               /\ get_evm_address_for_coldkey_vals(c)' = {{}}]_vars
    /\ [][(/\ Succeeded("delete_wallet_mapping")
           /\ Step("delete_wallet_mapping")
           /\ last'.outcome = "returned"
           /\ last'.args.coldkey = last.args.coldkey)
            => last'.val = FALSE]_vars

(* a delete has removed the mapping of one coldkey and left the other's *)
C12_Witness ==
    /\ Succeeded("delete_wallet_mapping")
    /\ last.val = TRUE
    /\ Len(wallet_mappings) = 1
    /\ wallet_mappings[1].coldkey # last.args.coldkey

PropagatingWriters == {"save_snapshot", "update_miner_data", "cleanup_old_events"}

TablesUnchanged ==
    UNCHANGED <<snapshots, miner_data, bet_events, wallet_mappings>>

(* C14: a save_snapshot, update_miner_data or cleanup_old_events that a    *)
(* storage fault strikes raises to its caller and leaves the four tables   *)
(* as they were, and these calls raise only when a fault strikes.          *)
C14_FaultPropagatesWithoutWrite ==
    [][\A op \in PropagatingWriters : Step(op) =>
        /\ (last'.fault # "none") <=> (last'.outcome = "raised")
        /\ (last'.fault # "none") => TablesUnchanged]_vars

(* the commit of a purge that had rows to delete has failed *)
C14_Witness ==
    /\ last.op = "cleanup_old_events"
    /\ last.fault = "commit"
    /\ last.outcome = "raised"
    /\ \E i \in DOMAIN bet_events :
        bet_events[i].timestamp < last.args.utcnow - (last.args.days * Day)

(* C15: whenever a call of the layer has completed, by returning or by     *)
(* raising, the connection it opened is closed: no connection is open      *)
(* between two operations.                                                 *)
C15_NoConnectionLeftOpen == connections = 0

(* every field of the row r is the argument of the call with arguments a *)
RowOfCall(r, a) ==
    /\ r.uid = a.uid
    /\ r.hotkey = a.hotkey
    /\ r.coldkey = a.coldkey
    /\ r.evm_address = a.evm_address
    /\ json_loads_list(r.daily_volumes_json) = a.daily_volumes
    /\ r.weighted_volume = a.weighted_volume
    /\ r.score = a.score

(* C16: with update_miner_data and get_miner_data running at once,         *)
(* miner_data holds at most one row per uid; a row that appears in it has  *)
(* every field from one update_miner_data call in flight, and is then the  *)
(* only row of its uid; and what a get_miner_data fetches is nothing or    *)
(* the record of one row of its uid that the table holds.                  *)
C16_RowLevelAtomicity ==
    /\ [](\A u \in Uids : Cardinality({r \in miner_data : r.uid = u}) <= 1)
    /\ [][\A r \in miner_data' \ miner_data :
            /\ \E t \in Threads :
                /\ inflight[t].op = "update_miner_data"
                /\ inflight[t].pc = "executed"
                /\ RowOfCall(r, inflight[t].args)
            /\ \A q \in miner_data' : q.uid = r.uid => q = r]_vars
    /\ [][\A t \in Threads :
            (inflight[t].pc = "connected" /\ inflight'[t].pc = "fetched") =>
                \A rec \in inflight'[t].val :
                    \E r \in miner_data :
                        /\ r.uid = inflight[t].args.uid
                        /\ rec.uid = r.uid
                        /\ rec.hotkey = r.hotkey
                        /\ rec.coldkey = r.coldkey
                        /\ rec.evm_address = r.evm_address
                        /\ rec.daily_volumes = json_loads_list(r.daily_volumes_json)
                        /\ rec.weighted_volume = r.weighted_volume
                        /\ rec.score = r.score
                        /\ rec.last_updated = r.last_updated]_vars

(* two upserts of one uid with different hotkey and address interleave:    *)
(* one has committed and not yet closed, the other has written and not     *)
(* yet committed                                                           *)
C16_Witness ==
    \E t, u \in Threads :
        /\ inflight[t].op = "update_miner_data"
        /\ inflight[u].op = "update_miner_data"
        /\ inflight[t].pc = "committed"
        /\ inflight[u].pc = "executed"
        /\ inflight[t].args.uid = inflight[u].args.uid
        /\ inflight[t].args.hotkey # inflight[u].args.hotkey
        /\ inflight[t].args.evm_address # inflight[u].args.evm_address
        /\ inflight[u].args.evm_address = {}

(* the event record v is the five columns of the row r that are selected *)
RecordOfRow(v, r) ==
    /\ v.game_id = r.game_id
    /\ v.amount = r.amount
    /\ v.side = r.side
    /\ v.block_number = r.block_number
    /\ v.timestamp = r.timestamp

(* C17: get_cached_bet_events(evm_address, since_timestamp) returns, and   *)
(* what it returns is one record for each cached row whose evm_address is  *)
(* the one given and whose timestamp is >= since_timestamp, no other       *)
(* record, with timestamps that never increase; the empty list when no     *)
(* row matches.                                                            *)
C17_CachedEventsOfAddressSince ==
    last.op = "get_cached_bet_events" =>
        LET a == last.args
            v == last.val
            M == {i \in DOMAIN bet_events :
                    /\ bet_events[i].evm_address = a.evm_address
                    /\ bet_events[i].timestamp >= a.since_timestamp}
        IN /\ last.outcome = "returned"
           /\ Len(v) = Cardinality(M)
           /\ \A i \in M : \E j \in DOMAIN v : RecordOfRow(v[j], bet_events[i])
           /\ \A j \in DOMAIN v : \E i \in M : RecordOfRow(v[j], bet_events[i])
           /\ \A j, k \in DOMAIN v : j < k => v[j].timestamp >= v[k].timestamp
           /\ M = {} => v = <<>>

(* the read has returned the one event of its address, whose timestamp is  *)
(* since_timestamp, and not the event of another address                   *)
C17_Witness ==
    /\ Succeeded("get_cached_bet_events")
    /\ Len(last.val) = 1
    /\ last.val[1].timestamp = last.args.since_timestamp
    /\ Len(bet_events) = 2
    /\ \E i \in DOMAIN bet_events :
        /\ bet_events[i].evm_address # last.args.evm_address
        /\ bet_events[i].timestamp >= last.args.since_timestamp

(* C18: a save_wallet_mapping that returns False has left wallet_mappings  *)
(* as it was, and a save_wallet_mapping after which the table differs has  *)
(* returned True.                                                          *)
C18_FalseMeansNothingWritten ==
    [][Step("save_wallet_mapping") =>
        /\ (last'.val = FALSE) => (wallet_mappings' = wallet_mappings)
        /\ (wallet_mappings' # wallet_mappings) => (last'.val = TRUE)
        /\ \A c \in Coldkeys :
            (get_wallet_mapping_vals(c)' # get_wallet_mapping_vals(c))
              => (last'.val = TRUE /\ last'.args.coldkey = c)]_vars

(* a save for a coldkey without mapping has failed in its statement and    *)
(* returned False, the table holding the mapping of the other coldkey      *)
C18_Witness ==
    /\ last.op = "save_wallet_mapping"
    /\ last.val = FALSE
    /\ last.fault = "execute"
    /\ Len(wallet_mappings) = 1
    /\ MappingsOf(wallet_mappings, last.args.coldkey) = {}

(* C19: the address a wallet mapping yields finds the cached events of     *)
(* that address in any casing: for every mapping and every cached event    *)
(* whose address differs from the mapped one in letter case at most,       *)
(* get_cached_bet_events(mapped address, s) returns the event for every    *)
(* s <= its timestamp.                                                     *)
C19_MappedAddressFindsEvents ==
    \A j \in DOMAIN wallet_mappings, i \in DOMAIN bet_events :
        IsLowerOf(wallet_mappings[j].evm_address, bet_events[i].evm_address) =>
            \A e \in get_evm_address_for_coldkey_vals(wallet_mappings[j].coldkey) :
              \A a \in e :
                \A v \in get_cached_bet_events_vals(a, bet_events[i].timestamp) :
                    \E k \in DOMAIN v : RecordOfRow(v[k], bet_events[i])

(* the rows of wallet_mappings of the coldkeys other than c, in order *)
MappingsOfOthers(rows, c) ==
    LET Other(r) == r.coldkey # c
    IN SelectSeq(rows, Other)

(* C20: each table changes only in a step of one of its own writers        *)
(* (snapshots: save_snapshot; miner_data: update_miner_data; bet_events:   *)
(* cache_bet_event and cleanup_old_events; wallet_mappings:                *)
(* save_wallet_mapping and delete_wallet_mapping), so every write leaves   *)
(* the other three tables and every read leaves all four as they were;     *)
(* update_miner_data(uid) leaves the rows of the other uids, and           *)
(* save_wallet_mapping(c) and delete_wallet_mapping(c) leave the rows of   *)
(* the other coldkeys, as they were.                                       *)
C20_WritesTouchOwnTableAndKey ==
    [][/\ (snapshots' # snapshots) => Step("save_snapshot")
       /\ (miner_data' # miner_data) =>
            /\ Step("update_miner_data")
            /\ \A u \in Uids : last'.args.uid = u =>
                 {r \in miner_data' : r.uid # u} = {r \in miner_data : r.uid # u}
       /\ (bet_events' # bet_events) =>
            (Step("cache_bet_event") \/ Step("cleanup_old_events"))
       /\ (wallet_mappings' # wallet_mappings) =>
            /\ Step("save_wallet_mapping") \/ Step("delete_wallet_mapping")
            /\ \A c \in Coldkeys : last'.args.coldkey = c =>
                 MappingsOfOthers(wallet_mappings', c)
                   = MappingsOfOthers(wallet_mappings, c)]_vars

(* a mapping has been saved for one coldkey with the address that the      *)
(* other coldkey is mapped to, and both mappings are in the table          *)
C20_Witness ==
    /\ Succeeded("save_wallet_mapping")
    /\ last.val = TRUE
    /\ Len(wallet_mappings) = 2
    /\ wallet_mappings[2].coldkey = last.args.coldkey
    /\ wallet_mappings[1].coldkey # last.args.coldkey
    /\ wallet_mappings[1].evm_address = wallet_mappings[2].evm_address

====
